---- MODULE Spec2Model ----
(***************************************************************************)
(* Model of the glanceng salt states (src/_states/glanceng.py:             *)
(* _find_image, image_present, image_import) and of the glanceng execution *)
(* module's task helpers (src/_modules/glanceng.py), run against a Glance  *)
(* catalog that concurrent writers may change while a state sleeps.        *)
(*                                                                         *)
(* Python values are encoded as follows.  None, True and False are the     *)
(* strings "None", "True" and "False".  A dict key that is absent is the   *)
(* value Missing.  The three values _find_image can return (an image dict, *)
(* None, False) are records whose field py is "dict", "None" or "False".   *)
(***************************************************************************)
EXTENDS Integers, Sequences, FiniteSets, TLC

\* ------------------------------------------------------------- bounds
\* Largest timeout tried is SleepStep * MaxPolls.
MaxPolls == 2
\* Largest number of same-named images the initial catalog or a concurrent
\* writer puts in the catalog.
MaxImages == 2
\* Number of changes concurrent writers make to the backend in one run.
MaxEnvSteps == 1

\* ------------------------------------------------------------- constants
\* time.sleep(5) / timer -= 5
SleepStep == 5

None == "None"
Missing == "<missing>"
Name == "img1"
Procs == {"p1", "p2"}

NonePy == [py |-> "None", id |-> 0, status |-> Missing, visibility |-> Missing,
           protected |-> Missing, checksum |-> Missing]
FalsePy == [py |-> "False", id |-> 0, status |-> Missing, visibility |-> Missing,
            protected |-> Missing, checksum |-> Missing]
\* What glance.image_show / image_update return for an id the catalog
\* does not hold: a dict without any image attribute.
NotFoundDict == [py |-> "dict", id |-> 0, status |-> Missing, visibility |-> Missing,
                 protected |-> Missing, checksum |-> Missing]

\* "if image" / "if not image"
Truthy(image) == image.py = "dict"

ImageStatuses == <<"queued", "saving", "active">>
StatusSet == {ImageStatuses[i] : i \in 1..Len(ImageStatuses)}
Checksums == {"c1", "c2"}
\* What the catalog holds as an image's checksum.
StoredChecksums == Checksums \cup {Missing}
ImageVisibilities == {"public", "private"}
Bools == {"True", "False"}

\* ------------------------------------------------------------- inputs
DesiredVisibility == {None, "public"}
DesiredProtected == {None, "True", "False", "yes"}
DesiredChecksum == {None, "c1"}
PresentLocations == {None, "http://host/img"}
ImportLocations == {None, "http://host/img", "file:///img"}
WaitFors == {None, "queued"}
Timeouts == {0, 3, SleepStep * MaxPolls}

\* ------------------------------------------------------------- helpers
InSeq(x, s) == \E i \in 1..Len(s) : s[i] = x

Max(S) == IF S = {} THEN 0 ELSE CHOOSE m \in S : \A n \in S : n <= m

\* A backend-assigned identifier not in use in the collection.
FreshId(recs) == 1 + Max({recs[i].id : i \in 1..Len(recs)})

RECURSIVE Without(_, _)
\* The collection without the records whose id is id.
Without(recs, id) ==
    IF recs = <<>> THEN <<>>
    ELSE IF Head(recs).id = id THEN Without(Tail(recs), id)
    ELSE <<Head(recs)>> \o Without(Tail(recs), id)

HasId(recs, id) == \E i \in 1..Len(recs) : recs[i].id = id

ById(recs, id) == recs[CHOOSE i \in 1..Len(recs) : recs[i].id = id]

\* The attributes of an image the API call returns: a listing or a create
\* response may leave out the status or the checksum.
Project(img, keepStatus, keepChecksum) ==
    [img EXCEPT !.status = IF keepStatus THEN @ ELSE Missing,
                !.checksum = IF keepChecksum THEN @ ELSE Missing]

\* Mutant of WaitForDefault: the two defaults are swapped.
WaitForDefaultSwapped(wait_for, checksum) ==
    IF wait_for = None /\ checksum = None THEN "active"
    ELSE IF wait_for = None /\ checksum # None THEN "saving"
    ELSE wait_for

\* image_present lines 100-103: the floor the poll waits for.
WaitForDefault(wait_for, checksum) ==
    IF wait_for = None /\ checksum = None THEN "saving"
    ELSE IF wait_for = None /\ checksum # None THEN "active"
    ELSE wait_for

RECURSIVE PopUntil(_, _)
\* image_present lines 107-111: pop states until the first acceptable one.
PopUntil(acceptable, wait_for) ==
    IF Len(acceptable) > 1
    THEN IF acceptable[1] = wait_for THEN acceptable
         ELSE PopUntil(Tail(acceptable), wait_for)
    ELSE acceptable

\* image_present lines 99-111.
Acceptable(wait_for, checksum) ==
    PopUntil(ImageStatuses, WaitForDefault(wait_for, checksum))

\* glance.image_list(name=name): the images of that name.
image_list(catalog, keepStatus, keepChecksum) ==
    [i \in 1..Len(catalog) |-> Project(catalog[i], keepStatus, keepChecksum)]

\* _find_image lines 48-68; auth is what the backend query raised, if anything.
find_image(images_list, auth) ==
    IF auth = "keystone"
    THEN [image |-> FalsePy, msg |-> "keystoneclient: Unauthorized"]
    ELSE IF auth = "glance"
    THEN [image |-> FalsePy, msg |-> "glanceclient: Unauthorized"]
    ELSE IF Len(images_list) = 0
    THEN [image |-> NonePy, msg |-> "No image with name"]
    ELSE IF Len(images_list) = 1
    THEN [image |-> images_list[1], msg |-> "Found image"]
    ELSE [image |-> FalsePy, msg |-> "Found more than one image with given name"]

AuthOutcomes == {"ok", "keystone", "glance"}

\* ------------------------------------------------------------- state
VARIABLES
    images,     \* backend: the images named Name, in creation order
    tasks,      \* backend: the tasks
    envSteps,   \* changes concurrent writers have made so far
    pc,         \* where each invocation stands
    args,       \* the arguments of each invocation
    image,      \* local variable image
    task,       \* local variable task
    task_id,    \* local variable task_id
    timer,      \* local variable timer
    msg,        \* local variable msg
    ret,        \* the dict the state returns
    calls,      \* backend calls issued by the current invocation
    steps,      \* the branches the current invocation took, in order
    history,    \* what the earlier invocations returned
    seen,       \* the catalog as the invocation's first lookup met it
    call        \* a call of a helper of the modules, its locals and its outcome

vars == <<images, tasks, envSteps, pc, args, image, task, task_id, timer, msg,
          ret, calls, steps, history, seen, call>>

\* The variables of the two states and of the backend.
reconciler == <<images, tasks, envSteps, pc, args, image, task, task_id, timer,
                msg, ret, calls, steps, history, seen>>

backend == <<images, tasks, envSteps>>

\* No helper is being called.
NoCall == [fn |-> "none"]

NoCalls == [image_list |-> 0, image_create |-> 0, image_update |-> 0,
            image_show |-> 0, task_create |-> 0, task_list |-> 0]

NoTask == [py |-> "None", id |-> 0, status |-> Missing]

\* image_present lines 94-98.
PresentRet == [result |-> "True", comment |-> <<>>, changes |-> <<>>]

Line(text, id) == [text |-> text, id |-> id]

\* image_import lines 282-285.
ImportRet == [result |-> "True",
              comment |-> <<Line("Image already exists", 0)>>,
              changes |-> <<>>]

\* The ret each state starts from (lines 94-98, 282-285).
InitialRet(func) == IF func = "image_import" THEN ImportRet ELSE PresentRet

\* Mutant of Add: the line replaces the comment (= instead of +=).
AddReplaces(r, line) == [r EXCEPT !.comment = <<line>>]

\* ret['comment'] += ...
Add(r, line) == [r EXCEPT !.comment = Append(@, line)]

\* Mutant of Lowered: the test flag is not consulted.
LoweredIgnoringTest(test) == "False"

\* The value a failed check gives ret['result'] (lines 115-118, 191-194, ...).
Lowered(test) == IF test THEN None ELSE "False"

Set(f, p, v) == [f EXCEPT ![p] = v]

Bump(c, p, api) == [c EXCEPT ![p][api] = @ + 1]

Log(p, step, outcome) ==
    [steps EXCEPT ![p] = Append(@, [step |-> step, outcome |-> outcome])]

\* A failed check: ret['result'] = False (None under test), comment += line.
Fail(r, test, line) == Add([r EXCEPT !.result = Lowered(test)], line)

\* ------------------------------------------------------------- image_present
\* Mutant of PresentBranch: "if location is not None", so that an image is
\* created and waited for although one exists.
PresentBranchIgnoresImage(found, location) ==
    IF found.py = "False" THEN "ambiguous"
    ELSE IF location # None THEN "create"
    ELSE "no_location"

\* Mutant of PresentBranch: "if not image and location is not None", so that
\* the ambiguous answer False is taken for "no image".
PresentBranchFalseAsNone(found, location) ==
    IF found.py \in {"None", "False"} /\ location # None THEN "create"
    ELSE IF found.py = "False" THEN "ambiguous"
    ELSE IF location = None THEN "no_location"
    ELSE "checks"

\* image_present lines 114-177: what the state does with the lookup's answer.
PresentBranch(found, location) ==
    IF found.py = "False" THEN "ambiguous"
    ELSE IF found.py = "None" /\ location # None THEN "create"
    ELSE IF location = None THEN "no_location"
    ELSE "checks"

\* image_present lines 113-128 and 167-177.
image_present_find(p) ==
    /\ pc[p] = "start"
    /\ args[p].func = "image_present"
    /\ \E auth \in AuthOutcomes, keepStatus \in BOOLEAN, keepChecksum \in BOOLEAN :
        LET a == args[p]
            found == find_image(image_list(images, keepStatus, keepChecksum), auth)
            branch == PresentBranch(found.image, a.location)
        IN /\ image' = Set(image, p, found.image)
           /\ msg' = Set(msg, p, found.msg)
           /\ calls' = Bump(calls, p, "image_list")
           /\ steps' = Log(p, "find", branch)
           /\ CASE branch = "ambiguous" ->
                     /\ ret' = Set(ret, p, [PresentRet EXCEPT
                                   !.result = Lowered(a.test),
                                   !.comment = <<Line(found.msg, 0)>>])
                     /\ pc' = Set(pc, p, "done")
                [] branch = "create" /\ a.test ->
                     /\ ret' = Set(ret, p, [PresentRet EXCEPT
                                   !.result = None,
                                   !.comment = <<Line("would create an image", 0)>>])
                     /\ pc' = Set(pc, p, "done")
                [] branch = "create" /\ ~a.test ->
                     /\ ret' = Set(ret, p, PresentRet)
                     /\ pc' = Set(pc, p, "create")
                [] branch = "no_location" ->
                     /\ ret' = Set(ret, p, [PresentRet EXCEPT
                                   !.result = Lowered(a.test),
                                   !.comment = <<Line("No location to copy image from specified", 0)>>])
                     /\ pc' = Set(pc, p, "done")
                [] branch = "checks" ->
                     /\ ret' = Set(ret, p, PresentRet)
                     /\ pc' = Set(pc, p, "visibility")
    /\ seen' = Set(seen, p, images)
    /\ UNCHANGED <<backend, args, task, task_id, timer, history>>
    /\ UNCHANGED call

\* The image glance.image_create stores for the request of lines 129-131.
CreatedImage(catalog, a, status, checksum) ==
    [py |-> "dict", id |-> FreshId(catalog), status |-> status,
     visibility |-> IF a.visibility = None THEN "private" ELSE a.visibility,
     protected |-> IF a.protected = "True" THEN "True" ELSE "False",
     checksum |-> IF status = "active" THEN checksum ELSE Missing]

\* image_present lines 129-143.
image_present_create(p) ==
    /\ pc[p] = "create"
    /\ \E status \in StatusSet, checksum \in StoredChecksums, keepStatus \in BOOLEAN :
        LET created == CreatedImage(images, args[p], status, checksum)
            answer == Project(created, keepStatus, TRUE)
        IN /\ images' = Append(images, created)
           /\ image' = Set(image, p, answer)
           /\ ret' = [ret EXCEPT ![p].changes =
                         (Name :> [new |-> ("id" :> answer.id), old |-> None])]
           /\ steps' = Log(p, "create", "created")
    /\ calls' = Bump(calls, p, "image_create")
    /\ timer' = Set(timer, p, args[p].timeout)
    /\ pc' = Set(pc, p, "poll")
    /\ UNCHANGED <<tasks, envSteps, args, task, task_id, msg, history, seen>>
    /\ UNCHANGED call

\* Mutant of LoopRuns: while timer >= 0.
LoopRunsAtZero(t) == t >= 0

\* image_present line 146 / image_import line 336: while timer > 0.
LoopRuns(t) == t > 0

\* image_present lines 147-148.
Reached(img, acceptable) == img.status # Missing /\ InSeq(img.status, acceptable)

\* Mutant of Slept: the sleep is not charged to the budget.
SleptForFree(t) == t

\* image_present line 153 / image_import line 347: timer -= 5.
Slept(t) == t - SleepStep

\* image_present lines 146-154: the loop test, up to the sleep.
image_present_poll(p) ==
    /\ pc[p] = "poll"
    /\ LET a == args[p]
       IN IF LoopRuns(timer[p])
          THEN IF Reached(image[p], Acceptable(a.wait_for, a.checksum))
               THEN /\ pc' = Set(pc, p, "after_poll")
                    /\ timer' = timer
               ELSE /\ timer' = Set(timer, p, Slept(timer[p]))
                    /\ pc' = Set(pc, p, "sleep")
          ELSE /\ pc' = Set(pc, p, "after_poll")
               /\ timer' = timer
    /\ UNCHANGED <<backend, args, image, task, task_id, msg, ret, calls, steps,
                   history, seen>>
    /\ UNCHANGED call

\* Mutant of AfterRequery: a vanished image is created again.
AfterRequeryRecreates(found) == IF ~Truthy(found) THEN "create" ELSE "poll"

\* image_present lines 156-160: where the loop goes after the re-lookup.
AfterRequery(found) == IF ~Truthy(found) THEN "done" ELSE "poll"

\* image_present lines 155-160: the re-lookup after the sleep.
image_present_requery(p) ==
    /\ pc[p] = "sleep"
    /\ args[p].func = "image_present"
    /\ \E auth \in AuthOutcomes, keepStatus \in BOOLEAN, keepChecksum \in BOOLEAN :
        LET found == find_image(image_list(images, keepStatus, keepChecksum), auth)
        IN /\ image' = Set(image, p, found.image)
           /\ msg' = Set(msg, p, found.msg)
           /\ IF ~Truthy(found.image)
              THEN /\ ret' = Set(ret, p,
                              Add(Add([ret[p] EXCEPT !.result = "False"],
                                      Line("Created image vanished", 0)),
                                  Line(found.msg, 0)))
                   /\ steps' = Log(p, "poll", "vanished")
              ELSE /\ ret' = ret
                   /\ steps' = steps
           /\ pc' = Set(pc, p, AfterRequery(found.image))
    /\ calls' = Bump(calls, p, "image_list")
    /\ UNCHANGED <<backend, args, task, task_id, timer, history, seen>>
    /\ UNCHANGED call

\* Mutant of TimedOut: the budget alone decides, whatever status the last
\* re-lookup saw.
TimedOutByBudget(t, img, acceptable) == t <= 0

\* image_present line 161, evaluated once image['status'] is known to exist.
TimedOut(t, img, acceptable) == t <= 0 /\ ~InSeq(img.status, acceptable)

\* Mutant of RecordStatus: the status is not recorded.
RecordStatusNever(r, img) == r

\* image_present lines 180-181: a created image's last status goes to changes.
RecordStatus(r, img) ==
    IF Name \in DOMAIN r.changes
    THEN [r EXCEPT !.changes[Name].new = ("status" :> img.status) @@ @]
    ELSE r

\* image_present lines 161-165 and 179-181.
image_present_after_poll(p) ==
    /\ pc[p] = "after_poll"
    /\ LET a == args[p]
           acceptable == Acceptable(a.wait_for, a.checksum)
       IN IF timer[p] <= 0 /\ image[p].status = Missing
          THEN \* KeyError: 'status'
               /\ pc' = Set(pc, p, "raised")
               /\ ret' = ret
               /\ steps' = Log(p, "poll", "raised")
          ELSE IF TimedOut(timer[p], image[p], acceptable)
          THEN /\ ret' = Set(ret, p, RecordStatus(
                             Add([ret[p] EXCEPT !.result = "False"],
                                 Line("Image didn't reach an acceptable state before timeout", 0)),
                             image[p]))
               /\ pc' = Set(pc, p, "visibility")
               /\ steps' = Log(p, "poll", "timeout")
          ELSE /\ ret' = Set(ret, p, RecordStatus(ret[p], image[p]))
               /\ pc' = Set(pc, p, "visibility")
               /\ steps' = Log(p, "poll", "reached")
    /\ UNCHANGED <<backend, args, image, task, task_id, timer, msg, calls, history, seen>>
    /\ UNCHANGED call

\* glance.image_update(id=..., visibility=...): the catalog afterwards; the
\* backend may leave the image as it was.
Updated(catalog, id, visibility, worked) ==
    [i \in 1..Len(catalog) |->
        IF catalog[i].id = id /\ worked
        THEN [catalog[i] EXCEPT !.visibility = visibility]
        ELSE catalog[i]]

\* What glance.image_update and glance.image_show answer for an id.
Shown(catalog, id) ==
    IF HasId(catalog, id) THEN ById(catalog, id) ELSE NotFoundDict

\* image_present lines 199-206: old and new value go to changes.
RecordVisibility(changes, old_value, visibility) ==
    ("new" :> (IF "new" \in DOMAIN changes
               THEN ("visibility" :> visibility) @@ changes["new"]
               ELSE ("visibility" :> visibility)))
    @@ ("old" :> (IF "old" \in DOMAIN changes
                  THEN ("visibility" :> old_value) @@ changes["old"]
                  ELSE ("visibility" :> old_value)))
    @@ changes

\* Mutant of VisibilityDiffers: the update is issued whatever is observed.
VisibilityDiffersAlways(visibility, img) == TRUE

\* image_present line 184: image['visibility'] != visibility.
VisibilityDiffers(visibility, img) == img.visibility # visibility

\* image_present lines 183-209.
image_present_visibility(p) ==
    /\ pc[p] = "visibility"
    /\ LET a == args[p]
           old_value == image[p].visibility
       IN IF a.visibility = None
          THEN /\ UNCHANGED <<images, image, ret, calls>>
               /\ steps' = Log(p, "visibility", "skipped")
               /\ pc' = Set(pc, p, "protected")
          ELSE IF old_value = Missing
          THEN \* KeyError: 'visibility'
               /\ UNCHANGED <<images, image, ret, calls>>
               /\ steps' = Log(p, "visibility", "raised")
               /\ pc' = Set(pc, p, "raised")
          ELSE IF ~VisibilityDiffers(a.visibility, image[p])
          THEN /\ UNCHANGED <<images, image, calls>>
               /\ ret' = Set(ret, p, Add(ret[p], Line("visibility is correct", 0)))
               /\ steps' = Log(p, "visibility", "correct")
               /\ pc' = Set(pc, p, "protected")
          ELSE IF a.test
          THEN /\ UNCHANGED <<images, image, calls>>
               /\ ret' = Set(ret, p, Fail(ret[p], TRUE, Line("visibility mismatch", 0)))
               /\ steps' = Log(p, "visibility", "failed")
               /\ pc' = Set(pc, p, "protected")
          ELSE \E worked \in BOOLEAN :
                 LET catalog == Updated(images, image[p].id, a.visibility, worked)
                     answer == Shown(catalog, image[p].id)
                 IN /\ images' = catalog
                    /\ image' = Set(image, p, answer)
                    /\ calls' = Bump(calls, p, "image_update")
                    /\ IF answer.visibility = Missing
                       THEN /\ ret' = ret
                            /\ steps' = Log(p, "visibility", "raised")
                            /\ pc' = Set(pc, p, "raised")
                       ELSE IF answer.visibility # a.visibility
                       THEN /\ ret' = Set(ret, p, Fail(ret[p], FALSE,
                                                Line("visibility mismatch", 0)))
                            /\ steps' = Log(p, "visibility", "failed")
                            /\ pc' = Set(pc, p, "protected")
                       ELSE /\ ret' = [ret EXCEPT ![p].changes =
                                       RecordVisibility(@, old_value, a.visibility)]
                            /\ steps' = Log(p, "visibility", "updated")
                            /\ pc' = Set(pc, p, "protected")
    /\ UNCHANGED <<tasks, envSteps, args, task, task_id, timer, msg, history, seen>>
    /\ UNCHANGED call

\* image_present line 211.
ProtectedMismatch(protected, img) ==
    protected \notin Bools \/ img.protected # protected

\* image_present lines 210-220.
image_present_protected(p) ==
    /\ pc[p] = "protected"
    /\ LET a == args[p]
       IN IF a.protected = None
          THEN /\ ret' = ret
               /\ steps' = Log(p, "protected", "skipped")
               /\ pc' = Set(pc, p, "checksum")
          ELSE IF image[p].protected = Missing
          THEN \* KeyError: 'protected'
               /\ ret' = ret
               /\ steps' = Log(p, "protected", "raised")
               /\ pc' = Set(pc, p, "raised")
          ELSE IF ProtectedMismatch(a.protected, image[p])
          THEN /\ ret' = Set(ret, p, Fail(ret[p], a.test, Line("protected mismatch", 0)))
               /\ steps' = Log(p, "protected", "failed")
               /\ pc' = Set(pc, p, "checksum")
          ELSE /\ ret' = Set(ret, p, Add(ret[p], Line("protected is correct", 0)))
               /\ steps' = Log(p, "protected", "correct")
               /\ pc' = Set(pc, p, "checksum")
    /\ UNCHANGED <<backend, args, image, task, task_id, timer, msg, calls, history, seen>>
    /\ UNCHANGED call

\* image_present lines 222-223 / image_import lines 376-377: the image is
\* active and its dict carries no checksum, so it is fetched again.
NeedsRefresh(img, checksum) ==
    /\ checksum # None
    /\ img.status = "active"
    /\ img.checksum = Missing

\* Mutant of ChecksumOutcome: the checksum is compared whatever the status.
ChecksumOutcomeAnyStatus(before, after, checksum) ==
    IF before.status = Missing \/ checksum = None THEN "skipped"
    ELSE IF after.checksum = Missing THEN "unavailable"
    ELSE IF after.checksum # checksum THEN "mismatch"
    ELSE "correct"

\* image_present lines 221-245 / image_import lines 375-402: what the
\* checksum step finds; before is the image whose status is tested, after
\* the image once refreshed.
ChecksumOutcome(before, after, checksum) ==
    IF before.status = Missing \/ checksum = None THEN "skipped"
    ELSE IF before.status = "active"
    THEN IF after.checksum = Missing
         THEN IF after.status = Missing THEN "raised" ELSE "unavailable"
         ELSE IF after.checksum # checksum THEN "mismatch"
         ELSE "correct"
    ELSE IF before.status \in {"saving", "queued"} THEN "not_active"
    ELSE "skipped"

\* image_present lines 244-245 / image_import lines 400-402: the line for an
\* image that is not active yet.
NotVerified(func) ==
    IF func = "image_present"
    THEN Line("Checksum won't be verified as image hasn't reached status=active yet", 0)
    ELSE Line("Checksum will not be verified as image has not reached status=active yet", 0)

\* Mutant of ChecksumRet: a matching checksum sets the result to True.
ChecksumRetResetsResult(r, outcome, test, func) ==
    CASE outcome = "unavailable" ->
            Fail(r, test, Line("No checksum available for this image", 0))
      [] outcome = "mismatch" -> Fail(r, test, Line("checksum mismatch", 0))
      [] outcome = "correct" ->
            Add([r EXCEPT !.result = "True"], Line("checksum is correct", 0))
      [] outcome = "not_active" ->
            Add(r, NotVerified(func))
      [] OTHER -> r

\* image_present lines 226-245 / image_import lines 380-402: the lines the
\* checksum step appends and the result it leaves.
ChecksumRet(r, outcome, test, func) ==
    CASE outcome = "unavailable" ->
            Fail(r, test, Line("No checksum available for this image", 0))
      [] outcome = "mismatch" -> Fail(r, test, Line("checksum mismatch", 0))
      [] outcome = "correct" -> Add(r, Line("checksum is correct", 0))
      [] outcome = "not_active" ->
            Add(r, NotVerified(func))
      [] OTHER -> r

\* image_present lines 221-247.
image_present_checksum(p) ==
    /\ pc[p] = "checksum"
    /\ LET a == args[p]
           refresh == NeedsRefresh(image[p], a.checksum)
           after == IF refresh THEN Shown(images, image[p].id) ELSE image[p]
           outcome == ChecksumOutcome(image[p], after, a.checksum)
       IN /\ image' = Set(image, p, after)
          /\ calls' = IF refresh THEN Bump(calls, p, "image_show") ELSE calls
          /\ steps' = Log(p, "checksum", outcome)
          /\ ret' = Set(ret, p, ChecksumRet(ret[p], outcome, a.test, a.func))
          /\ pc' = Set(pc, p, IF outcome = "raised" THEN "raised" ELSE "done")
    /\ UNCHANGED <<backend, args, task, task_id, timer, msg, history, seen>>
    /\ UNCHANGED call

\* ------------------------------------------------------------- tasks
TaskStatuses == {"pending", "processing", "success", "failure"}

\* The task schema's property names; a backend's schema may lack 'status'.
TaskSchemas == {{"id", "type", "input", "status"}, {"id", "type", "input"}}

\* task_show lines 281-284: the dict returned for an unknown task id.
TaskNotFound == [py |-> "dict", id |-> 0, status |-> Missing]

\* task_show lines 289-295 / task_list lines 308-315: the schema filter.
Filtered(t, schema) ==
    [py |-> "dict",
     id |-> IF "id" \in schema THEN t.id ELSE 0,
     status |-> IF "status" \in schema THEN t.status ELSE Missing]

\* task_show lines 276-295.
task_show(catalog, id, schema) ==
    IF HasId(catalog, id) THEN Filtered(ById(catalog, id), schema)
    ELSE TaskNotFound

\* task_list lines 305-317: the ids listed; each maps to its filtered task.
task_list(catalog) == {catalog[i].id : i \in 1..Len(catalog)}

\* image_import lines 306-316.
TaskParams(a) ==
    [import_from |-> a.location,
     import_from_format |-> "raw",
     image_properties |-> [name |-> Name, visibility |-> a.visibility,
                           protected |-> a.protected]]

\* The image a successful import task leaves in the catalog.
ImportedImage(catalog, props, status, checksum) ==
    [py |-> "dict", id |-> FreshId(catalog), status |-> status,
     visibility |-> IF props.visibility = None THEN "private" ELSE props.visibility,
     protected |-> IF props.protected = "True" THEN "True" ELSE "False",
     checksum |-> IF status = "active" THEN checksum ELSE Missing]

\* What str.startswith can find at the head of a location.
Scheme(location) ==
    CASE location = "http://host/img" -> "http://"
      [] location = "file:///img" -> "file://"
      [] OTHER -> ""

ValidVisibilities == {"public", "private", "shared", "community"}

ValidImportFromFormats ==
    {"ami", "ari", "aki", "vhd", "vmdk", "raw", "qcow2", "vdi", "iso"}

\* _validate_image_params lines 194-198, for the properties image_import sends.
validate_image_params(image_properties) ==
    IF image_properties.visibility # None
       /\ image_properties.visibility \notin ValidVisibilities
    THEN "SaltInvocationError" ELSE "ok"

\* _validate_task_params lines 215-246: "ok", or the error raised.
validate_task_params(task_type, input_params) ==
    IF task_type \notin {"import"} THEN "SaltInvocationError"
    ELSE IF {"import_from", "import_from_format", "image_properties"}
            \ DOMAIN input_params # {}
    THEN "SaltInvocationError"
    ELSE IF input_params.import_from = None THEN "AttributeError"
    ELSE IF Scheme(input_params.import_from) \notin {"http://", "https://"}
    THEN "SaltInvocationError"
    ELSE IF input_params.import_from_format \notin ValidImportFromFormats
    THEN "SaltInvocationError"
    ELSE validate_image_params(input_params.image_properties)

\* ------------------------------------------------------------- image_import
\* Mutant of ImportBranch: only an active image counts as existing.
ImportBranchActiveOnly(found) ==
    IF Truthy(found) /\ found.status = "active" THEN "exists"
    ELSE IF found.py = "False" THEN "ambiguous"
    ELSE "create"

\* image_import lines 290-299.
ImportBranch(found) ==
    IF Truthy(found) THEN "exists"
    ELSE IF found.py = "False" THEN "ambiguous"
    ELSE "create"

\* image_import lines 282-304.
image_import_find(p) ==
    /\ pc[p] = "start"
    /\ args[p].func = "image_import"
    /\ \E auth \in AuthOutcomes, keepStatus \in BOOLEAN, keepChecksum \in BOOLEAN :
        LET a == args[p]
            found == find_image(image_list(images, keepStatus, keepChecksum), auth)
            branch == ImportBranch(found.image)
        IN /\ image' = Set(image, p, found.image)
           /\ msg' = Set(msg, p, found.msg)
           /\ calls' = Bump(calls, p, "image_list")
           /\ steps' = Log(p, "find", branch)
           /\ CASE branch = "exists" ->
                     /\ ret' = Set(ret, p, ImportRet)
                     /\ pc' = Set(pc, p, "done")
                [] branch = "ambiguous" ->
                     /\ ret' = Set(ret, p, [ImportRet EXCEPT
                                   !.result = Lowered(a.test),
                                   !.comment = <<Line(found.msg, 0)>>])
                     /\ pc' = Set(pc, p, "done")
                [] branch = "create" /\ a.test ->
                     /\ ret' = Set(ret, p, [ImportRet EXCEPT
                                   !.result = None,
                                   !.comment = <<Line("would create an image", 0)>>])
                     /\ pc' = Set(pc, p, "done")
                [] branch = "create" /\ ~a.test ->
                     /\ ret' = Set(ret, p, ImportRet)
                     /\ pc' = Set(pc, p, "task_create")
    /\ seen' = Set(seen, p, images)
    /\ UNCHANGED <<backend, args, task, task_id, timer, history>>
    /\ UNCHANGED call

\* image_import lines 318-335, with task_create lines 258-265 of the module.
image_import_create(p) ==
    /\ pc[p] = "task_create"
    /\ \E status \in TaskStatuses, schema \in TaskSchemas, kept \in BOOLEAN,
          istatus \in {"saving", "active"}, checksum \in StoredChecksums :
        LET a == args[p]
            created == [py |-> "dict", id |-> FreshId(tasks), status |-> status,
                        type |-> "import", input |-> TaskParams(a)]
            stored == IF kept THEN Append(tasks, created) ELSE tasks
            answer == task_show(stored, created.id, schema)
        IN /\ tasks' = stored
           /\ images' = IF kept /\ status = "success"
                        THEN Append(images, ImportedImage(images,
                                 created.input.image_properties, istatus, checksum))
                        ELSE images
           /\ task' = Set(task, p, answer)
           /\ IF answer.id = 0
              THEN \* KeyError: 'id'
                   /\ pc' = Set(pc, p, "raised")
                   /\ steps' = Log(p, "task_create", "raised")
                   /\ UNCHANGED <<task_id, ret, timer>>
              ELSE /\ task_id' = Set(task_id, p, answer.id)
                   /\ ret' = [ret EXCEPT ![p].changes =
                                 (Name :> [new |-> ("task_id" :> answer.id),
                                           old |-> None])]
                   /\ timer' = Set(timer, p, a.timeout)
                   /\ pc' = Set(pc, p, "task_poll")
                   /\ steps' = Log(p, "task_create", "created")
    /\ calls' = Bump(calls, p, "task_create")
    /\ UNCHANGED <<envSteps, args, image, msg, history, seen>>
    /\ UNCHANGED call

\* image_import lines 336-347: what one pass of the loop test decides.
TaskPoll(t, tsk) ==
    IF LoopRuns(t)
    THEN IF tsk.status = "success" THEN "break"
         ELSE IF tsk.status = "failure" THEN "failed"
         ELSE "sleep"
    ELSE "exit"

\* image_import lines 336-348: the loop test, up to the sleep.
image_import_poll(p) ==
    /\ pc[p] = "task_poll"
    /\ LET decision == TaskPoll(timer[p], task[p])
       IN CASE decision = "failed" ->
                 /\ ret' = Set(ret, p, [ret[p] EXCEPT
                               !.result = "False",
                               !.comment = <<Line("Task has failed", task_id[p])>>])
                 /\ pc' = Set(pc, p, "done")
                 /\ steps' = Log(p, "task_poll", "failed")
                 /\ timer' = timer
            [] decision = "sleep" ->
                 /\ timer' = Set(timer, p, Slept(timer[p]))
                 /\ pc' = Set(pc, p, "task_sleep")
                 /\ UNCHANGED <<ret, steps>>
            [] OTHER ->
                 /\ pc' = Set(pc, p, "task_after_poll")
                 /\ UNCHANGED <<ret, steps, timer>>
    /\ UNCHANGED <<backend, args, image, task, task_id, msg, calls, history, seen>>
    /\ UNCHANGED call

\* image_import lines 349-356: the task list is fetched again after the sleep.
image_import_requery(p) ==
    /\ pc[p] = "task_sleep"
    /\ \E schema \in TaskSchemas :
        IF task_id[p] \notin task_list(tasks)
        THEN /\ ret' = Set(ret, p,
                        Add(Add([ret[p] EXCEPT !.result = "False"],
                                Line("Created task vanished", task_id[p])),
                            Line(msg[p], 0)))
             /\ pc' = Set(pc, p, "done")
             /\ steps' = Log(p, "task_poll", "vanished")
             /\ task' = task
        ELSE /\ task' = Set(task, p, Filtered(ById(tasks, task_id[p]), schema))
             /\ pc' = Set(pc, p, "task_poll")
             /\ UNCHANGED <<ret, steps>>
    /\ calls' = Bump(calls, p, "task_list")
    /\ UNCHANGED <<backend, args, image, task_id, timer, msg, history, seen>>
    /\ UNCHANGED call

\* image_import lines 357-362.
image_import_after_poll(p) ==
    /\ pc[p] = "task_after_poll"
    /\ IF timer[p] <= 0 /\ task[p].status = Missing
       THEN \* KeyError: 'status'
            /\ pc' = Set(pc, p, "raised")
            /\ steps' = Log(p, "task_poll", "raised")
            /\ ret' = ret
       ELSE IF timer[p] <= 0 /\ task[p].status # "success"
       THEN /\ ret' = Set(ret, p, [ret[p] EXCEPT
                          !.result = "False",
                          !.comment = <<Line("Task did not reach state success before the timeout",
                                             task_id[p])>>])
            /\ pc' = Set(pc, p, "done")
            /\ steps' = Log(p, "task_poll", "timeout")
       ELSE /\ pc' = Set(pc, p, "import_check")
            /\ steps' = Log(p, "task_poll", "success")
            /\ ret' = ret
    /\ UNCHANGED <<backend, args, image, task, task_id, timer, msg, calls, history, seen>>
    /\ UNCHANGED call

\* Mutant of RecordImage: changes[name]['new'] is assigned a new dict.
RecordImageDropsTask(new, img) ==
    ("image_id" :> img.id) @@ ("image_status" :> img.status)

\* Mutant of RecordImage: the image's status is left out.
RecordImageIdOnly(new, img) == ("image_id" :> img.id) @@ new

\* image_import lines 371-372: the image found goes to changes[name]['new'].
RecordImage(new, img) ==
    ("image_id" :> img.id) @@ ("image_status" :> img.status) @@ new

\* image_import lines 366-404.
image_import_check(p) ==
    /\ pc[p] = "import_check"
    /\ \E auth \in AuthOutcomes, keepStatus \in BOOLEAN, keepChecksum \in BOOLEAN :
        LET a == args[p]
            found == find_image(image_list(images, keepStatus, keepChecksum), auth)
            img == found.image
            refresh == NeedsRefresh(img, a.checksum)
            after == IF refresh THEN Shown(images, img.id) ELSE img
            outcome == ChecksumOutcome(img, after, a.checksum)
            created == [ret[p] EXCEPT
                           !.changes[Name].new = RecordImage(@, img),
                           !.comment = <<Line("Image was successfully created by task",
                                              task_id[p])>>]
        IN /\ msg' = Set(msg, p, found.msg)
           /\ IF ~Truthy(img)
              THEN /\ ret' = Set(ret, p, [ret[p] EXCEPT
                                 !.result = "False",
                                 !.comment = <<Line(found.msg, 0)>>])
                   /\ image' = Set(image, p, img)
                   /\ calls' = Bump(calls, p, "image_list")
                   /\ steps' = Log(p, "import_check", "no_image")
                   /\ pc' = Set(pc, p, "done")
              ELSE IF img.status = Missing
              THEN \* KeyError: 'status', after line 371 has stored the id
                   /\ ret' = [ret EXCEPT ![p].changes[Name].new =
                                 ("image_id" :> img.id) @@ @]
                   /\ image' = Set(image, p, img)
                   /\ calls' = Bump(calls, p, "image_list")
                   /\ steps' = Log(p, "import_check", "raised")
                   /\ pc' = Set(pc, p, "raised")
              ELSE /\ ret' = Set(ret, p, ChecksumRet(created, outcome, a.test, a.func))
                   /\ image' = Set(image, p, after)
                   /\ calls' = IF refresh
                               THEN Bump(Bump(calls, p, "image_list"), p, "image_show")
                               ELSE Bump(calls, p, "image_list")
                   /\ steps' = Log(p, "checksum", outcome)
                   /\ pc' = Set(pc, p, IF outcome = "raised" THEN "raised" ELSE "done")
    /\ UNCHANGED <<backend, args, task, task_id, timer, history, seen>>
    /\ UNCHANGED call

\* ------------------------------------------------------------- the next run
\* What an invocation returned, kept when the state is applied again.
Returned(p) ==
    [seen |-> seen[p],
     msg |-> msg[p],
     result |-> ret[p].result,
     changed |-> DOMAIN ret[p].changes,
     mutating |-> calls[p].image_create + calls[p].image_update
                  + calls[p].task_create]

\* The state is applied a second time, with the same arguments, after it
\* returned.
apply_again(p) ==
    /\ pc[p] = "done"
    /\ history[p] = <<>>
    /\ history' = Set(history, p, Append(history[p], Returned(p)))
    /\ pc' = Set(pc, p, "start")
    /\ image' = Set(image, p, NonePy)
    /\ task' = Set(task, p, NoTask)
    /\ task_id' = Set(task_id, p, 0)
    /\ timer' = Set(timer, p, 0)
    /\ msg' = Set(msg, p, "")
    /\ ret' = Set(ret, p, InitialRet(args[p].func))
    /\ calls' = Set(calls, p, NoCalls)
    /\ steps' = Set(steps, p, <<>>)
    /\ UNCHANGED <<backend, args, seen>>
    /\ UNCHANGED call

\* ------------------------------------------------------------- the backend
\* Concurrent writers act while a state sleeps between two polls.
Sleeping == \E p \in Procs : pc[p] \in {"sleep", "task_sleep"}

EnvMay == Sleeping /\ envSteps < MaxEnvSteps

Later(status) ==
    {ImageStatuses[j] : j \in {k \in 1..Len(ImageStatuses) :
        \E i \in 1..Len(ImageStatuses) : ImageStatuses[i] = status /\ i < k}}

\* An image's upload progresses: queued -> saving -> active.
EnvImageAdvance ==
    /\ EnvMay
    /\ \E i \in 1..Len(images) : \E s \in Later(images[i].status), c \in StoredChecksums :
         images' = [images EXCEPT ![i].status = s,
                                  ![i].checksum = IF s = "active" THEN c ELSE Missing]
    /\ envSteps' = envSteps + 1
    /\ UNCHANGED <<tasks, pc, args, image, task, task_id, timer, msg, ret, calls,
                   steps, history, seen>>
    /\ UNCHANGED call

\* An image is deleted.
EnvImageDelete ==
    /\ EnvMay
    /\ \E i \in 1..Len(images) : images' = Without(images, images[i].id)
    /\ envSteps' = envSteps + 1
    /\ UNCHANGED <<tasks, pc, args, image, task, task_id, timer, msg, ret, calls,
                   steps, history, seen>>
    /\ UNCHANGED call

\* Somebody else uploads an image of the same name.
EnvImageUpload ==
    /\ EnvMay
    /\ Len(images) < MaxImages
    /\ \E v \in ImageVisibilities :
         images' = Append(images,
             [py |-> "dict", id |-> FreshId(images), status |-> "queued",
              visibility |-> v, protected |-> "False", checksum |-> Missing])
    /\ envSteps' = envSteps + 1
    /\ UNCHANGED <<tasks, pc, args, image, task, task_id, timer, msg, ret, calls,
                   steps, history, seen>>
    /\ UNCHANGED call

\* Somebody else changes an image's visibility.
EnvImageVisibility ==
    /\ EnvMay
    /\ \E i \in 1..Len(images) : \E v \in ImageVisibilities \ {images[i].visibility} :
         images' = [images EXCEPT ![i].visibility = v]
    /\ envSteps' = envSteps + 1
    /\ UNCHANGED <<tasks, pc, args, image, task, task_id, timer, msg, ret, calls,
                   steps, history, seen>>
    /\ UNCHANGED call

\* The backend works on a task; a successful import leaves an image, unless
\* the image is gone again by the time the task is seen to have succeeded.
EnvTaskAdvance ==
    /\ EnvMay
    /\ \E i \in 1..Len(tasks) :
         /\ tasks[i].status \in {"pending", "processing"}
         /\ \E s \in TaskStatuses \ {"pending", tasks[i].status},
               istatus \in {"saving", "active"}, c \in StoredChecksums, left \in BOOLEAN :
              /\ tasks' = [tasks EXCEPT ![i].status = s]
              /\ images' = IF s = "success" /\ left
                           THEN Append(images, ImportedImage(images,
                                    tasks[i].input.image_properties, istatus, c))
                           ELSE images
    /\ envSteps' = envSteps + 1
    /\ UNCHANGED <<pc, args, image, task, task_id, timer, msg, ret, calls, steps,
                   history, seen>>
    /\ UNCHANGED call

\* A task is deleted.
EnvTaskDelete ==
    /\ EnvMay
    /\ \E i \in 1..Len(tasks) : tasks' = Without(tasks, tasks[i].id)
    /\ envSteps' = envSteps + 1
    /\ UNCHANGED <<images, pc, args, image, task, task_id, timer, msg, ret, calls,
                   steps, history, seen>>
    /\ UNCHANGED call

\* ------------------------------------------------------------- specification
\* The images the catalog may hold when the state is first applied: a queued
\* image has no checksum yet, an image being saved may carry the checksum of
\* the data received so far.
InitImages ==
    {i \in [py : {"dict"}, id : {1}, status : StatusSet,
            visibility : ImageVisibilities, protected : Bools,
            checksum : StoredChecksums] :
        /\ i.status = "queued" => i.checksum = Missing
        /\ i.status = "saving" => i.checksum # "c1"}

Copies(i, k) == [j \in 1..k |-> [i EXCEPT !.id = j]]

\* The catalog when the state is first applied: empty, one image, or up to
\* MaxImages queued images of the same name.
InitCatalogs ==
    {<<>>} \cup {<<i>> : i \in InitImages}
    \cup {Copies(i, k) : i \in {j \in InitImages : j.status = "queued"},
                         k \in 2..MaxImages}

\* The arguments tried.  wait_for and timeout are only read after an image
\* was created, which takes an empty catalog: with an image in the catalog
\* they are tried at their default only.
PresentArgs(catalog) ==
    [func : {"image_present"}, test : BOOLEAN,
     visibility : DesiredVisibility,
     protected : IF catalog = <<>> THEN DesiredProtected \ {"False"}
                 ELSE DesiredProtected,
     checksum : DesiredChecksum, location : PresentLocations,
     wait_for : IF catalog = <<>> THEN WaitFors ELSE {None},
     timeout : IF catalog = <<>> THEN Timeouts ELSE {30}]

ImportArgs(catalog) ==
    [func : {"image_import"}, test : BOOLEAN,
     visibility : IF catalog = <<>> THEN {"public"} ELSE DesiredVisibility,
     protected : IF catalog = <<>> THEN {"False"} ELSE Bools,
     checksum : DesiredChecksum, location : ImportLocations,
     wait_for : {None},
     timeout : IF catalog = <<>> THEN Timeouts ELSE {30}]

IdleArgs ==
    [func |-> "none", test |-> FALSE, visibility |-> None, protected |-> None,
     checksum |-> None, location |-> None, wait_for |-> None, timeout |-> 0]

Init ==
    /\ images \in InitCatalogs
    /\ tasks = <<>>
    /\ envSteps = 0
    /\ \E a \in PresentArgs(images) \cup ImportArgs(images) :
         args = [p \in Procs |-> IF p = "p1" THEN a ELSE IdleArgs]
    /\ pc = [p \in Procs |-> IF p = "p1" THEN "start" ELSE "idle"]
    /\ image = [p \in Procs |-> NonePy]
    /\ task = [p \in Procs |-> NoTask]
    /\ task_id = [p \in Procs |-> 0]
    /\ timer = [p \in Procs |-> 0]
    /\ msg = [p \in Procs |-> ""]
    /\ ret = [p \in Procs |-> InitialRet(args[p].func)]
    /\ calls = [p \in Procs |-> NoCalls]
    /\ steps = [p \in Procs |-> <<>>]
    /\ history = [p \in Procs |-> <<>>]
    /\ seen = [p \in Procs |-> <<>>]
    /\ call = NoCall

Step(p) ==
    \/ image_present_find(p)
    \/ image_present_create(p)
    \/ image_present_poll(p)
    \/ image_present_requery(p)
    \/ image_present_after_poll(p)
    \/ image_present_visibility(p)
    \/ image_present_protected(p)
    \/ image_present_checksum(p)
    \/ image_import_find(p)
    \/ image_import_create(p)
    \/ image_import_poll(p)
    \/ image_import_requery(p)
    \/ image_import_after_poll(p)
    \/ image_import_check(p)
    \/ apply_again(p)

Env ==
    \/ EnvImageAdvance
    \/ EnvImageDelete
    \/ EnvImageUpload
    \/ EnvImageVisibility
    \/ EnvTaskAdvance
    \/ EnvTaskDelete

\* One salt minion applies the state: a single-threaded, blocking run.
Next == Step("p1") \/ Env

Spec == Init /\ [][Next]_vars

\* ------------------------------------------------------------- helpers called
\* "if password": None and the empty string count as not set.
PyTrue(x) == x \notin {None, ""}

\* Mutant of Credentials: the admin token is tried before the password.
CredentialsTokenFirst(password, admin_token, api_version) ==
    IF PyTrue(admin_token) /\ api_version # 1 /\ ~PyTrue(password)
    THEN "token_needs_v1"
    ELSE IF api_version = 1 /\ PyTrue(admin_token) THEN "token"
    ELSE IF PyTrue(password) THEN "password"
    ELSE "no_credentials"

\* _auth lines 139-162: the credentials chosen, or why none is.
Credentials(password, admin_token, api_version) ==
    IF PyTrue(admin_token) /\ api_version # 1 /\ ~PyTrue(password)
    THEN "token_needs_v1"
    ELSE IF PyTrue(password) THEN "password"
    ELSE IF api_version = 1 /\ PyTrue(admin_token) THEN "token"
    ELSE "no_credentials"

\* _auth lines 146-160: the keys of kwargs.
Kwargs(chosen, insecure) ==
    IF chosen = "password"
    THEN {"username", "password", "tenant_id", "auth_url", "endpoint_url",
          "region_name", "tenant_name"}
         \cup (IF insecure THEN {"insecure"} ELSE {})
    ELSE {"token", "auth_url", "endpoint_url"}

\* The configurations _auth is called with.
AuthCalls ==
    [fn : {"_auth"}, pc : {"start"},
     password : {None, "", "verybadpass"}, admin_token : {None, "", "tok"},
     api_version : {1, 2}, insecure : BOOLEAN, has_keystone : BOOLEAN,
     chosen : {None}, kwargs : {{}}, outcome : {"running"}]

\* _auth lines 139-162.
auth_credentials ==
    /\ call.fn = "_auth"
    /\ call.pc = "start"
    /\ LET chosen == Credentials(call.password, call.admin_token, call.api_version)
       IN IF chosen \in {"token_needs_v1", "no_credentials"}
          THEN call' = [call EXCEPT !.pc = "raised", !.chosen = chosen,
                                    !.outcome = "SaltInvocationError"]
          ELSE call' = [call EXCEPT !.pc = "connect", !.chosen = chosen,
                                    !.kwargs = Kwargs(chosen, call.insecure)]
    /\ UNCHANGED reconciler

\* _auth lines 164-181.
auth_connect ==
    /\ call.fn = "_auth"
    /\ call.pc = "connect"
    /\ IF ~call.has_keystone
       THEN call' = [call EXCEPT !.pc = "raised", !.outcome = "NotImplementedError"]
       ELSE IF "password" \notin call.kwargs
       THEN \* kwargs.pop('password')
            call' = [call EXCEPT !.pc = "raised", !.outcome = "KeyError",
                                 !.kwargs = @ \cup {"token"}]
       ELSE call' = [call EXCEPT !.pc = "done", !.outcome = "client",
                                 !.kwargs = (@ \cup {"token"}) \ {"password"}]
    /\ UNCHANGED reconciler

\* The wait_for and checksum arguments image_present is called with.
AcceptableCalls ==
    [fn : {"acceptable"}, pc : {"start"},
     given : {None, "queued", "saving", "active", "killed"},
     checksum : {None, "c1"},
     wait_for : {None}, acceptable : {ImageStatuses}]

\* image_present lines 99-103.
acceptable_default ==
    /\ call.fn = "acceptable"
    /\ call.pc = "start"
    /\ call' = [call EXCEPT !.pc = "loop",
                            !.wait_for = WaitForDefault(call.given, call.checksum)]
    /\ UNCHANGED reconciler

\* image_present lines 107-111: one pass of the loop.
acceptable_pop ==
    /\ call.fn = "acceptable"
    /\ call.pc = "loop"
    /\ IF Len(call.acceptable) > 1
       THEN IF call.acceptable[1] = call.wait_for
            THEN call' = [call EXCEPT !.pc = "done"]
            ELSE call' = [call EXCEPT !.acceptable = Tail(@)]
       ELSE call' = [call EXCEPT !.pc = "done"]
    /\ UNCHANGED reconciler

\* No state is being applied while a helper is looked at on its own.
HelperInit ==
    /\ images = <<>>
    /\ tasks = <<>>
    /\ envSteps = 0
    /\ args = [p \in Procs |-> IdleArgs]
    /\ pc = [p \in Procs |-> "idle"]
    /\ image = [p \in Procs |-> NonePy]
    /\ task = [p \in Procs |-> NoTask]
    /\ task_id = [p \in Procs |-> 0]
    /\ timer = [p \in Procs |-> 0]
    /\ msg = [p \in Procs |-> ""]
    /\ ret = [p \in Procs |-> PresentRet]
    /\ calls = [p \in Procs |-> NoCalls]
    /\ steps = [p \in Procs |-> <<>>]
    /\ history = [p \in Procs |-> <<>>]
    /\ seen = [p \in Procs |-> <<>>]
    /\ call \in AuthCalls \cup AcceptableCalls

HelperNext ==
    \/ auth_credentials
    \/ auth_connect
    \/ acceptable_default
    \/ acceptable_pop

HelperSpec == HelperInit /\ [][HelperNext]_vars

\* ------------------------------------------------------------- termination
\* The runs in which a state polls: the catalog holds no image of the name
\* and the state is applied for real with a location (the visibility and
\* the protected flag, which no loop reads, take one value each); next to
\* them, the helpers on their own.
PollingInit ==
    /\ Init
    /\ images = <<>>
    /\ ~args["p1"].test
    /\ args["p1"].location = "http://host/img"
    /\ args["p1"].protected \in {None, "False"}
    /\ args["p1"].visibility = "public"

\* The minion runs the state's code to its end (a sleep returns, a backend
\* call answers), and so does a helper once called.
TerminationSpec ==
    /\ (PollingInit \/ HelperInit)
    /\ [][Next \/ HelperNext]_vars
    /\ WF_vars(Step("p1"))
    /\ WF_vars(HelperNext)

\* ------------------------------------------------------------- two imports
\* Two minions, or two states of one highstate run in parallel, import an
\* image of the same name for real while the catalog holds none.
RaceInit ==
    /\ images = <<>>
    /\ tasks = <<>>
    /\ envSteps = 0
    /\ \E a \in ImportArgs(<<>>) :
         /\ ~a.test
         /\ a.location = "http://host/img"
         /\ a.timeout = 3
         /\ args = [p \in Procs |-> a]
    /\ pc = [p \in Procs |-> "start"]
    /\ image = [p \in Procs |-> NonePy]
    /\ task = [p \in Procs |-> NoTask]
    /\ task_id = [p \in Procs |-> 0]
    /\ timer = [p \in Procs |-> 0]
    /\ msg = [p \in Procs |-> ""]
    /\ ret = [p \in Procs |-> ImportRet]
    /\ calls = [p \in Procs |-> NoCalls]
    /\ steps = [p \in Procs |-> <<>>]
    /\ history = [p \in Procs |-> <<>>]
    /\ seen = [p \in Procs |-> <<>>]
    /\ call = NoCall

\* image_import lines 282-404, one step of one invocation.
ImportStep(p) ==
    \/ image_import_find(p)
    \/ image_import_create(p)
    \/ image_import_poll(p)
    \/ image_import_requery(p)
    \/ image_import_after_poll(p)
    \/ image_import_check(p)

\* The two invocations interleave at every backend call and every sleep.
RaceNext == (\E p \in Procs : ImportStep(p)) \/ EnvTaskAdvance

RaceSpec == RaceInit /\ [][RaceNext]_vars

\* ------------------------------------------------------------- properties
Mutating(p) ==
    calls[p].image_create + calls[p].image_update + calls[p].task_create

HasStep(p, step, outcome) ==
    \E i \in 1..Len(steps[p]) : steps[p][i] = [step |-> step, outcome |-> outcome]

Ran(p, step) == \E i \in 1..Len(steps[p]) : steps[p][i].step = step

Ambiguous == "Found more than one image with given name"

\* C1: when the first lookup finds more than one image, image_present and
\* image_import return at once with result False (None under test), never
\* True, and have issued no image_create, image_update or task_create.
C1_AmbiguousIsHardFailure ==
    \A p \in Procs :
        (steps[p] # <<>> /\ Len(seen[p]) > 1 /\ msg[p] = Ambiguous)
        => /\ pc[p] = "done"
           /\ Len(steps[p]) = 1
           /\ ret[p].result = (IF args[p].test THEN None ELSE "False")
           /\ ret[p].comment = <<Line(Ambiguous, 0)>>
           /\ DOMAIN ret[p].changes = {}
           /\ Mutating(p) = 0

C1_Witness ==
    \E p \in Procs :
        /\ pc[p] = "done"
        /\ args[p].func = "image_import"
        /\ ~args[p].test
        /\ args[p].location # None
        /\ Len(seen[p]) > 1
        /\ msg[p] = Ambiguous
        /\ ret[p].result = "False"

\* C2: under test no image_create, image_update or task_create is ever
\* issued and the result is never False, in the running invocation and in
\* the one that returned before it.
C2_DryRun ==
    \A p \in Procs :
        args[p].test
        => /\ Mutating(p) = 0
           /\ ret[p].result # "False"
           /\ \A i \in 1..Len(history[p]) :
                history[p][i].mutating = 0 /\ history[p][i].result # "False"

C2_Witness ==
    \E p \in Procs :
        /\ pc[p] = "done"
        /\ args[p].test
        /\ args[p].func = "image_present"
        /\ HasStep(p, "visibility", "failed")
        /\ HasStep(p, "checksum", "mismatch")
        /\ ret[p].result = None

\* The catalog holds exactly one image and it has the visibility, the
\* protected flag and the checksum the arguments ask for.
Converged(catalog, a) ==
    /\ Len(catalog) = 1
    /\ a.visibility # None => catalog[1].visibility = a.visibility
    /\ a.protected # None => catalog[1].protected = a.protected
    /\ a.checksum # None => (catalog[1].status = "active"
                             /\ catalog[1].checksum = a.checksum)

\* C3: image_present applied twice to a catalog whose one image already
\* matches returns changes = {} and result True both times and issues no
\* image_create or image_update, with or without a location.
C3_Idempotent ==
    \A p \in Procs :
        (/\ args[p].func = "image_present"
         /\ ~args[p].test
         /\ pc[p] = "done"
         /\ Converged(seen[p], args[p])
         /\ msg[p] = "Found image"
         /\ \A i \in 1..Len(history[p]) :
              /\ Converged(history[p][i].seen, args[p])
              /\ history[p][i].msg = "Found image")
        => /\ ret[p].result = "True"
           /\ DOMAIN ret[p].changes = {}
           /\ Mutating(p) = 0
           /\ \A i \in 1..Len(history[p]) :
                /\ history[p][i].result = "True"
                /\ history[p][i].changed = {}
                /\ history[p][i].mutating = 0

NoLocation == Line("No location to copy image from specified", 0)

\* C4: image_present gives the 'no location' failure only when the lookup
\* found no image and no location was given; when the lookup finds exactly
\* one image the visibility, protected and checksum checks run, with or
\* without a location.
C4_NoLocationOnlyWithoutImage ==
    \A p \in Procs :
        (args[p].func = "image_present" /\ pc[p] = "done")
        => /\ ret[p].comment = <<NoLocation>>
                => (msg[p] = "No image with name" /\ args[p].location = None)
           /\ msg[p] = "Found image"
                => (Ran(p, "visibility") /\ Ran(p, "protected") /\ Ran(p, "checksum"))

\* C5 as stated: one invocation issues at most one mutating backend call.
C5_AtMostOneMutatingCall == \A p \in Procs : Mutating(p) <= 1

\* C5, amended: one invocation issues at most one creating call
\* (image_create or task_create) and at most one image_update; image_import
\* issues no image_create and no image_update, image_present no task_create.
C5_OneCreateOneUpdate ==
    \A p \in Procs :
        /\ calls[p].image_create + calls[p].task_create <= 1
        /\ calls[p].image_update <= 1
        /\ args[p].func = "image_import"
             => calls[p].image_create = 0 /\ calls[p].image_update = 0
        /\ args[p].func = "image_present" => calls[p].task_create = 0

C5_Witness ==
    \E p \in Procs :
        /\ pc[p] = "done"
        /\ calls[p].image_create = 1
        /\ calls[p].image_update = 1

Last(q) == q[Len(q)]

\* C6: with a checksum requested, the checksum step compares it (mismatch,
\* no checksum available, or confirmation) exactly when the status it sees
\* is 'active'; on 'queued' or 'saving' it leaves the result alone and only
\* appends the 'not verified' line.
C6_ChecksumOnlyWhenActive ==
    [][\A p \in Procs :
        (/\ pc[p] \in {"checksum", "import_check"}
         /\ pc'[p] = "done"
         /\ args[p].checksum # None
         /\ Truthy(image'[p]))
        => LET outcome == Last(steps'[p]).outcome
               status == image'[p].status
           IN /\ outcome \in {"mismatch", "unavailable", "correct"}
                   <=> status = "active"
              /\ status \in {"queued", "saving"}
                   => /\ outcome = "not_active"
                      /\ ret'[p].result = ret[p].result
                      /\ Last(ret'[p].comment) = NotVerified(args[p].func)]_vars

C6_Witness ==
    \E p \in Procs :
        /\ pc[p] = "done"
        /\ args[p].checksum = "c1"
        /\ image[p].status = "saving"
        /\ image[p].checksum = "c2"
        /\ HasStep(p, "checksum", "not_active")
        /\ ret[p].result = "True"

CeilDiv(t, d) == IF t <= 0 THEN 0 ELSE (t + d - 1) \div d

\* The lookups or task list queries the poll loop has made.
Requeries(p) ==
    IF args[p].func = "image_present"
    THEN IF calls[p].image_list > 0 THEN calls[p].image_list - 1 ELSE 0
    ELSE calls[p].task_list

\* C7: the poll of image_present makes at most ceil(timeout/5) re-lookups
\* after the first lookup and the poll of image_import at most
\* ceil(timeout/5) task list queries: at most 2 for timeout 10, none for a
\* timeout of 0 or less.
C7_PollBound ==
    \A p \in Procs :
        /\ Requeries(p) <= CeilDiv(args[p].timeout, SleepStep)
        /\ args[p].timeout = 10 => Requeries(p) <= 2
        /\ args[p].timeout <= 0 => Requeries(p) = 0

C7_Witness ==
    \E p \in Procs :
        /\ pc[p] = "done"
        /\ args[p].func = "image_present"
        /\ args[p].timeout = 10
        /\ calls[p].image_list = 3
        /\ HasStep(p, "poll", "timeout")

HasFailed(p) == Line("Task has failed", task_id[p])

\* C8: whenever image_import sees the task as failed it stops
\* with result False and the 'has failed' comment naming the task, and
\* makes no task query and no image lookup afterwards.
C8_FailureAlwaysHasFailed ==
    \A p \in Procs :
        task[p].status = "failure"
        => /\ pc[p] \in {"task_poll", "task_after_poll", "done"}
           /\ pc[p] = "done"
                => /\ ret[p].result = "False"
                   /\ ret[p].comment = <<HasFailed(p)>>
                   /\ calls[p].image_list = 1

\* C9: when the first lookup of image_import finds exactly one image, the
\* invocation returns result True, changes {} and the 'already exists'
\* comment, under test or not and whatever checksum, visibility or
\* protected flag is asked for, having issued nothing but that lookup.
C9_ImportExistingShortCircuits ==
    \A p \in Procs :
        (/\ args[p].func = "image_import"
         /\ steps[p] # <<>>
         /\ Len(seen[p]) = 1
         /\ msg[p] = "Found image")
        => /\ pc[p] = "done"
           /\ ret[p] = ImportRet
           /\ calls[p] = [NoCalls EXCEPT !.image_list = 1]

C9_Witness ==
    \E p \in Procs :
        /\ pc[p] = "done"
        /\ args[p].func = "image_import"
        /\ ~args[p].test
        /\ args[p].checksum = "c1"
        /\ args[p].visibility = "public"
        /\ msg[p] = "Found image"
        /\ image[p].visibility = "private"
        /\ image[p].checksum = "c2"
        /\ ret[p].result = "True"

FailedOutcomes == {"failed", "timeout", "unavailable", "mismatch"}

AnyFailed(p) == \E i \in 1..Len(steps[p]) : steps[p][i].outcome \in FailedOutcomes

\* C10: once image_present holds an image record, the visibility, the
\* protected and the checksum check run in that order whatever the earlier
\* ones or the poll found; the result is False iff a check or the poll
\* failed in a real run, None iff one failed under test, True iff none
\* failed; a result once lowered is not set back to True.
C10_AllChecksRun ==
    /\ [](\A p \in Procs :
            args[p].func = "image_present"
            => /\ pc[p] \in {"visibility", "protected", "checksum"}
                    => ret[p].result = (IF AnyFailed(p) THEN Lowered(args[p].test)
                                        ELSE "True")
               /\ (pc[p] = "done" /\ Ran(p, "visibility"))
                    => LET n == Len(steps[p])
                       IN /\ n >= 3
                          /\ steps[p][n - 2].step = "visibility"
                          /\ steps[p][n - 1].step = "protected"
                          /\ steps[p][n].step = "checksum"
                          /\ ret[p].result = (IF AnyFailed(p)
                                              THEN Lowered(args[p].test) ELSE "True")
               /\ pc[p] = "protected" => Last(steps[p]).step = "visibility"
               /\ pc[p] = "checksum" => Last(steps[p]).step = "protected")
    /\ [][\A p \in Procs :
            (ret[p].result # "True" /\ pc'[p] # "start")
            => ret'[p].result # "True"]_vars

C10_Witness ==
    \E p \in Procs :
        /\ pc[p] = "done"
        /\ ~args[p].test
        /\ HasStep(p, "poll", "timeout")
        /\ HasStep(p, "visibility", "failed")
        /\ HasStep(p, "protected", "correct")
        /\ HasStep(p, "checksum", "not_active")
        /\ ret[p].result = "False"

InComment(p, line) == \E i \in 1..Len(ret[p].comment) : ret[p].comment[i] = line

\* C11: a created object that a re-query of the poll no longer finds stops
\* the invocation at once with result False: image_present names the image
\* in the comment, runs no check, issues no image_update and keeps the
\* created id in changes; image_import names the task, makes no image
\* lookup and keeps the task id in changes.
C11_VanishedIsHardStop ==
    \A p \in Procs :
        /\ HasStep(p, "poll", "vanished")
             => /\ pc[p] = "done"
                /\ Last(steps[p]) = [step |-> "poll", outcome |-> "vanished"]
                /\ ret[p].result = "False"
                /\ InComment(p, Line("Created image vanished", 0))
                /\ ~Ran(p, "visibility") /\ ~Ran(p, "protected") /\ ~Ran(p, "checksum")
                /\ calls[p].image_update = 0 /\ calls[p].image_create = 1
                /\ DOMAIN ret[p].changes = {Name}
                /\ ret[p].changes[Name].old = None
                /\ DOMAIN ret[p].changes[Name].new = {"id"}
                /\ ret[p].changes[Name].new["id"] > 0
        /\ HasStep(p, "task_poll", "vanished")
             => /\ pc[p] = "done"
                /\ Last(steps[p]) = [step |-> "task_poll", outcome |-> "vanished"]
                /\ ret[p].result = "False"
                /\ InComment(p, Line("Created task vanished", task_id[p]))
                /\ calls[p].image_list = 1
                /\ ret[p].changes = (Name :> [new |-> ("task_id" :> task_id[p]),
                                              old |-> None])

C11_Witness ==
    \E p \in Procs :
        /\ pc[p] = "done"
        /\ args[p].func = "image_present"
        /\ HasStep(p, "poll", "vanished")
        /\ msg[p] = Ambiguous
        /\ Len(images) > 1

\* C12: image_present reports the timeout exactly when the poll budget is
\* used up and the last status seen is not acceptable (an acceptable status
\* seen at the last re-query counts as reached); it then lowers the result
\* to False without raising, keeps the created id and the last status in
\* changes and goes on to the checks.  image_import, its budget used up with
\* a task status other than 'success', returns result False with the task
\* id in changes and makes no image lookup.
C12_TimeoutDowngrade ==
    /\ [](\A p \in Procs :
            /\ (HasStep(p, "poll", "timeout") /\ pc[p] = "done")
                 => /\ ret[p].result = "False"
                    /\ Ran(p, "visibility") /\ Ran(p, "protected") /\ Ran(p, "checksum")
                    /\ ret[p].changes[Name].old = None
                    /\ {"id", "status"} \subseteq DOMAIN ret[p].changes[Name].new
            /\ HasStep(p, "task_poll", "timeout")
                 => /\ pc[p] = "done"
                    /\ ret[p].result = "False"
                    /\ ret[p].changes = (Name :> [new |-> ("task_id" :> task_id[p]),
                                                  old |-> None])
                    /\ calls[p].image_list = 1)
    /\ [][\A p \in Procs :
            /\ (pc[p] = "after_poll" /\ pc'[p] # "after_poll"
                /\ image[p].status # Missing)
                 => LET exhausted ==
                            /\ timer[p] <= 0
                            /\ ~InSeq(image[p].status,
                                      Acceptable(args[p].wait_for, args[p].checksum))
                    IN /\ pc'[p] = "visibility"
                       /\ (Last(steps'[p]).outcome = "timeout") <=> exhausted
                       /\ exhausted
                            => /\ ret'[p].result = "False"
                               /\ ret'[p].changes[Name].new["status"] = image[p].status
                               /\ ret'[p].changes[Name].new["id"]
                                    = ret[p].changes[Name].new["id"]
            /\ (pc[p] = "task_after_poll" /\ pc'[p] # "task_after_poll"
                /\ task[p].status # Missing)
                 => ((Last(steps'[p]).outcome = "timeout" /\ pc'[p] = "done")
                       <=> (timer[p] <= 0 /\ task[p].status # "success"))]_vars

C12_Witness ==
    \E p \in Procs :
        /\ pc[p] = "done"
        /\ args[p].func = "image_present"
        /\ args[p].timeout = 3
        /\ HasStep(p, "poll", "timeout")
        /\ HasStep(p, "checksum", "not_active")
        /\ ret[p].changes[Name].new["status"] = "saving"
        /\ ret[p].result = "False"

\* C13: no task is submitted to the backend unless it is an 'import' task
\* whose parameters import_from, import_from_format and image_properties
\* are present and whose import_from starts with http:// or https://;
\* image_import without a location submits none.
C13_OnlyValidTasksSubmitted ==
    \A p \in Procs :
        calls[p].task_create > 0
        => /\ validate_task_params("import", TaskParams(args[p])) = "ok"
           /\ args[p].location # None

\* The credential check of _auth has been passed or has raised.
Checked == call.fn = "_auth" /\ call.pc # "start"

Selected == call.chosen \in {"password", "token"}

IsPrefix(a, b) == Len(a) <= Len(b) /\ SubSeq(b, 1, Len(a)) = a

Range(q) == {q[i] : i \in 1..Len(q)}

\* C15 as stated: within one invocation every assignment to the comment
\* extends it, so no line written earlier, the initial one included, is
\* lost.
C15_CommentAppendOnly ==
    [][\A p \in Procs :
        pc'[p] # "start" => IsPrefix(ret[p].comment, ret'[p].comment)]_vars

\* C15, amended: within one invocation of image_present every assignment to
\* the comment extends it.  image_import extends its comment only with the
\* 'vanished' text and with the checksum lines; every other message it
\* reports replaces the whole comment, the initial 'already exists'
\* included, so no earlier line is left beside it.
C15_PresentAppendsImportReplaces ==
    [][\A p \in Procs :
        pc'[p] # "start"
        => /\ args[p].func = "image_present"
                => IsPrefix(ret[p].comment, ret'[p].comment)
           /\ args[p].func = "image_import"
                => \/ IsPrefix(ret[p].comment, ret'[p].comment)
                   \/ /\ Range(ret[p].comment) \cap Range(ret'[p].comment) = {}
                      /\ pc[p] \in {"start", "task_poll", "task_after_poll",
                                    "import_check"}
           /\ (pc[p] = "task_sleep" /\ pc'[p] = "done")
                => (Len(ret'[p].comment) = 3
                    /\ IsPrefix(ImportRet.comment, ret'[p].comment))]_vars

C15_Witness ==
    \E p \in Procs :
        /\ pc[p] = "done"
        /\ args[p].func = "image_present"
        /\ HasStep(p, "visibility", "correct")
        /\ HasStep(p, "protected", "failed")
        /\ HasStep(p, "checksum", "mismatch")
        /\ Len(ret[p].comment) = 3

Outcome(p, step) ==
    {steps[p][i].outcome : i \in {j \in 1..Len(steps[p]) : steps[p][j].step = step}}

\* image_present created the image, saw it reach an acceptable status and
\* found nothing to correct or to report.
CreatedAndMatching(p) ==
    /\ args[p].func = "image_present"
    /\ ~args[p].test
    /\ pc[p] = "done"
    /\ HasStep(p, "find", "create")
    /\ HasStep(p, "poll", "reached")
    /\ Outcome(p, "visibility") \subseteq {"skipped", "correct"}
    /\ Outcome(p, "protected") \subseteq {"skipped", "correct"}
    /\ Outcome(p, "checksum") \subseteq {"skipped", "correct", "not_active"}

\* image_present lines 143 and 180: the id put in changes at creation is
\* the id of the image just created, and the later steps of the invocation
\* leave it as it is.
CreatedIdRecorded(p) ==
    /\ (pc[p] = "create" /\ pc'[p] = "poll")
         => /\ ~HasId(images, ret'[p].changes[Name].new["id"])
            /\ Last(images').id = ret'[p].changes[Name].new["id"]
    /\ (/\ pc[p] \in {"poll", "requery", "after_poll", "visibility",
                       "protected", "checksum"}
        /\ Name \in DOMAIN ret[p].changes)
         => /\ Name \in DOMAIN ret'[p].changes
            /\ ret'[p].changes[Name].new["id"] = ret[p].changes[Name].new["id"]

\* C16: in a real run without an image and with a location, when the
\* created image reaches an acceptable status in time and every requested
\* attribute matches, image_present returns result True and changes equal
\* to {name: {old: None, new: {id: created id, status: last status}}},
\* after exactly one image_create and no image_update.
C16_CreationResult ==
    /\ [](\A p \in Procs :
            CreatedAndMatching(p)
            => /\ ret[p].result = "True"
               /\ DOMAIN ret[p].changes = {Name}
               /\ ret[p].changes[Name].old = None
               /\ DOMAIN ret[p].changes[Name].new = {"id", "status"}
               /\ ret[p].changes[Name].new["status"] = image[p].status
               /\ image[p].status \in StatusSet
               /\ ~HasId(seen[p], ret[p].changes[Name].new["id"])
               /\ calls[p].image_create = 1
               /\ calls[p].image_update = 0)
    /\ [][\A p \in Procs : CreatedIdRecorded(p)]_vars

C16_Witness ==
    \E p \in Procs :
        /\ CreatedAndMatching(p)
        /\ args[p].checksum = "c1"
        /\ HasStep(p, "checksum", "correct")
        /\ HasStep(p, "visibility", "correct")
        /\ calls[p].image_list = 2
        /\ ret[p].changes[Name].new["status"] = "active"

\* C17: once the first lookup has returned, image_present and image_import
\* always return their ret and never end in an unhandled error, whatever
\* the backend answers: not when the read-back in task_create finds no
\* task, and not when an image or a task carries no status once the poll
\* budget is used up.  Stated for calls with a usable location.
C17_NeverRaises ==
    \A p \in Procs :
        Scheme(args[p].location) = "http://" => pc[p] # "raised"

\* C18: the changes image_present returns are keyed by the image name only:
\* after a visibility correction, with or without a creation before it,
\* the old and the new visibility stand inside the name's {old, new} entry.
C18_ChangesKeyedByName ==
    \A p \in Procs :
        args[p].func = "image_present"
        => /\ DOMAIN ret[p].changes \subseteq {Name}
           /\ HasStep(p, "visibility", "updated")
                => /\ Name \in DOMAIN ret[p].changes
                   /\ "visibility" \in DOMAIN ret[p].changes[Name].new
                   /\ ret[p].changes[Name].new["visibility"] = args[p].visibility

\* C19: after the task is seen to have succeeded image_import looks the
\* image up by name again; when the lookup finds none (or several) the
\* result is False and changes holds the task id only; otherwise
\* changes[name].new also holds image_id and image_status of the image
\* found, and the checksum is looked at only if one was requested.
C19_PostSuccessLookup ==
    [][\A p \in Procs :
        (pc[p] = "import_check" /\ pc'[p] # "import_check")
        => /\ Last(steps[p]) = [step |-> "task_poll", outcome |-> "success"]
           /\ task[p].status = "success"
           /\ calls'[p].image_list = calls[p].image_list + 1
           /\ ~Truthy(image'[p])
                => /\ pc'[p] = "done"
                   /\ ret'[p].result = "False"
                   /\ ret'[p].comment = <<Line(msg'[p], 0)>>
                   /\ ret'[p].changes = (Name :> [new |-> ("task_id" :> task_id[p]),
                                                  old |-> None])
           /\ (Truthy(image'[p]) /\ image'[p].status # Missing)
                => LET outcome == Last(steps'[p]).outcome
                   IN /\ ret'[p].changes =
                            (Name :> [new |-> ("task_id" :> task_id[p])
                                              @@ ("image_id" :> image'[p].id)
                                              @@ ("image_status" :> image'[p].status),
                                      old |-> None])
                      /\ HasId(images, image'[p].id)
                      /\ (outcome = "skipped") <=> (args[p].checksum = None)
                      /\ args[p].checksum = None
                           => /\ ret'[p].result = "True"
                              /\ Len(ret'[p].comment) = 1
                              /\ calls'[p].image_show = 0]_vars

C19_Witness ==
    \E p \in Procs :
        /\ pc[p] = "done"
        /\ args[p].func = "image_import"
        /\ args[p].checksum = "c1"
        /\ HasStep(p, "task_poll", "success")
        /\ HasStep(p, "checksum", "mismatch")
        /\ calls[p].task_list = 1
        /\ "image_status" \in DOMAIN ret[p].changes[Name].new
        /\ ret[p].result = "False"

\* The suffix of s that starts at its element x.
SuffixFrom(s, x) == SubSeq(s, CHOOSE i \in 1..Len(s) : s[i] = x, Len(s))

\* C20: for every wait_for and checksum the acceptable list image_present
\* computes is the suffix of [queued, saving, active] that starts at the
\* floor: wait_for when given, 'saving' when neither wait_for nor checksum
\* is given, 'active' when only checksum is; it is never empty and always
\* holds 'active'.
C20_AcceptableFloor ==
    call.fn = "acceptable"
    => /\ call.acceptable # <<>>
       /\ InSeq("active", call.acceptable)
       /\ call.pc = "done"
            => LET floor == IF call.given # None THEN call.given
                            ELSE IF call.checksum = None THEN "saving"
                            ELSE "active"
               IN /\ call.wait_for = floor
                  /\ floor \in StatusSet
                       => call.acceptable = SuffixFrom(ImageStatuses, floor)
                  /\ call.acceptable = Acceptable(call.given, call.checksum)

C20_Witness ==
    /\ call.fn = "acceptable"
    /\ call.pc = "done"
    /\ call.given = None
    /\ call.checksum = "c1"
    /\ call.acceptable = <<"active">>

\* p's step out of pc value at.
Leaves(p, at) == pc[p] = at /\ pc'[p] # at

\* C21: image_present issues image_update exactly when, in a real run, a
\* visibility is asked for and the visibility observed differs from it:
\* then one update and no more, and when the answer still differs the
\* result is False.  The protected and the checksum step issue no update
\* and leave the catalog as it is, whatever they find.
C21_OnlyVisibilityIsCorrected ==
    /\ [](\A p \in Procs : calls[p].image_update <= 1)
    /\ [][\A p \in Procs :
            /\ (calls'[p].image_update > calls[p].image_update)
                 <=> /\ Leaves(p, "visibility")
                     /\ ~args[p].test
                     /\ args[p].visibility # None
                     /\ image[p].visibility # args[p].visibility
            /\ (calls'[p].image_update > calls[p].image_update)
                 => /\ calls'[p].image_update = calls[p].image_update + 1
                    /\ image'[p].visibility \notin {Missing, args[p].visibility}
                         => /\ ret'[p].result = "False"
                            /\ Last(steps'[p]) = [step |-> "visibility", outcome |-> "failed"]
                            /\ ret'[p].changes = ret[p].changes
            /\ (Leaves(p, "protected") \/ Leaves(p, "checksum"))
                 => /\ images' = images
                    /\ calls'[p].image_update = calls[p].image_update
                    /\ calls'[p].image_create = calls[p].image_create]_vars

C21_Witness ==
    \E p \in Procs :
        /\ pc[p] = "done"
        /\ args[p].func = "image_present"
        /\ calls[p].image_update = 1
        /\ HasStep(p, "visibility", "failed")
        /\ HasStep(p, "protected", "failed")
        /\ HasStep(p, "checksum", "mismatch")
        /\ ret[p].result = "False"

\* C22: whatever the timeout and whatever the backend does, each invocation
\* of image_present and image_import comes to its end; each pass of a poll
\* loop that does not leave the loop runs with a positive budget and takes
\* 5 off it, and nothing else touches the budget before the next pass; the
\* loop trimming the acceptable list drops one state in each pass that does
\* not leave it, and comes to its end.
C22_Termination ==
    /\ \A p \in Procs : (pc[p] = "start") ~> (pc[p] \in {"done", "raised"})
    /\ (call.fn = "acceptable") ~> (call.fn = "acceptable" /\ call.pc = "done")
    /\ [][/\ \A p \in Procs :
               /\ pc[p] = "poll" => pc'[p] \in {"poll", "sleep", "after_poll"}
               /\ pc[p] = "task_poll"
                    => pc'[p] \in {"task_poll", "task_sleep", "task_after_poll", "done"}
               /\ (pc'[p] \in {"sleep", "task_sleep"} /\ pc'[p] # pc[p])
                    => /\ timer[p] > 0
                       /\ timer'[p] = timer[p] - 5
               /\ (pc[p] \in {"sleep", "task_sleep"} /\ pc'[p] # "raised")
                    => timer'[p] = timer[p]
               /\ (pc[p] \in {"sleep", "task_sleep"} /\ pc'[p] # pc[p])
                    => pc'[p] \in {"poll", "task_poll", "done"}
          /\ (call.fn = "acceptable" /\ call.pc = "loop" /\ call' # call)
               => \/ call'.pc = "done" /\ call'.acceptable = call.acceptable
                  \/ /\ call'.pc = "loop"
                     /\ Len(call'.acceptable) = Len(call.acceptable) - 1
                     /\ Len(call'.acceptable) >= 1]_vars

C22_Witness ==
    \E p \in Procs :
        /\ pc[p] = "done"
        /\ args[p].timeout = SleepStep * MaxPolls
        /\ timer[p] <= 0
        /\ \/ HasStep(p, "poll", "timeout") /\ calls[p].image_list = 1 + MaxPolls
           \/ HasStep(p, "task_poll", "timeout") /\ calls[p].task_list = MaxPolls

\* The invocation went past its task_create call.
Submitted(p) == HasStep(p, "find", "create") /\ pc[p] # "task_create"

\* C23: two image_import runs for one name, interleaved against a catalog
\* without such an image, are not kept apart by the module: the lookup and
\* the task_create of one are never held back by what the other has done,
\* each run whose first lookup found no image submits its own task, and a
\* lookup that then meets more than one image ends the run with result
\* False.
C23_NoDeduplication ==
    \A p \in Procs :
        /\ pc[p] = "start" => ENABLED image_import_find(p)
        /\ pc[p] = "task_create" => ENABLED image_import_create(p)
        /\ HasStep(p, "find", "create") => seen[p] = <<>>
        /\ Submitted(p) => calls[p].task_create = 1
        /\ (pc[p] = "done" /\ HasStep(p, "import_check", "no_image") /\ msg[p] = Ambiguous)
             => ret[p].result = "False"

\* Both runs found no image and both submitted a task; both imports left an
\* image and a run's lookup for its image met the two of them.
C23_Witness ==
    /\ \A p \in Procs : seen[p] = <<>> /\ Submitted(p) /\ calls[p].task_create = 1
    /\ Len(tasks) = 2
    /\ Len(images) = 2
    /\ \E p \in Procs :
         /\ HasStep(p, "task_poll", "success")
         /\ HasStep(p, "import_check", "no_image")
         /\ msg[p] = Ambiguous

\* A check of the invocation found the image not as asked for.
CheckFailed(p) ==
    \E i \in 1..Len(steps[p]) :
        /\ steps[p][i].step \in {"visibility", "protected", "checksum"}
        /\ steps[p][i].outcome \in {"failed", "unavailable", "mismatch"}

Importing(p) ==
    /\ args[p].func = "image_import"
    /\ ~args[p].test
    /\ HasStep(p, "find", "create")

\* C25: image_import applied for real without an existing image issues one
\* task_create and no more; whichever way it returns after that (task
\* failed, task vanished, timeout, success with or without an image),
\* changes[name].old is None and changes[name].new.task_id is the id of
\* the task that call created.
C25_TaskIdOnEveryReturn ==
    /\ [](\A p \in Procs :
            Importing(p)
            => /\ calls[p].task_create = (IF pc[p] = "task_create" THEN 0 ELSE 1)
               /\ pc[p] = "done"
                    => /\ Ran(p, "task_create")
                       /\ DOMAIN ret[p].changes = {Name}
                       /\ ret[p].changes[Name].old = None
                       /\ "task_id" \in DOMAIN ret[p].changes[Name].new
                       /\ ret[p].changes[Name].new["task_id"] = task_id[p]
                       /\ task_id[p] > 0)
    /\ [][\A p \in Procs :
            /\ (Leaves(p, "task_create") /\ pc'[p] # "raised")
                 => /\ task_id'[p] = FreshId(tasks)
                    /\ ~HasId(tasks, task_id'[p])
                    /\ HasId(tasks', task_id'[p])
                    /\ Len(tasks') = Len(tasks) + 1
            /\ (pc[p] \in {"task_poll", "task_sleep", "task_after_poll", "import_check"})
                 => task_id'[p] = task_id[p]]_vars

C25_Witness ==
    \E p \in Procs :
        /\ Importing(p)
        /\ pc[p] = "done"
        /\ HasStep(p, "task_poll", "success")
        /\ HasStep(p, "checksum", "correct")
        /\ DOMAIN ret[p].changes[Name].new = {"task_id", "image_id", "image_status"}
        /\ ret[p].changes[Name].new["task_id"] = task_id[p]
        /\ calls[p].task_create = 1

====
